---- MODULE Spec2Model ----
(***************************************************************************)
(* Model of package logger (src/logger/logger.go): construction of the     *)
(* zap logger from its configuration (build, newEncoder, openWriters,      *)
(* buildOptions) and the gorm SQL trace logger (Print, Println, createLog, *)
(* getFormattedValues, createSQL).                                         *)
(*                                                                         *)
(* A Go string is a sequence of bytes, modelled as a sequence of integers  *)
(* in 0..255.  S(<<"a", "b">>) writes a string literal.                    *)
(***************************************************************************)
EXTENDS Integers, Sequences, FiniteSets

VARIABLES
    pc,          \* "ready" before the call under study, "done" after it
    sql,         \* createSQL: parameter sql
    values,      \* createSQL: parameter values ([]string)
    result,      \* createSQL: returned string
    args,        \* Print: the variadic arguments (values ...interface{})
    logger,      \* the receiver of Print: Nil or a Logger
    formatted,   \* getFormattedValues: the returned []string
    logLine,     \* Println: the string createLog returned
    debugCalls,  \* the messages handed to zap.Debugf
    outcome,     \* "pending", "returned" or "panic"
    cfg,         \* build: parameter cfg
    built        \* build: the returned (log, err) pair

vars == <<pc, sql, values, result, args, logger, formatted, logLine,
          debugCalls, outcome, cfg, built>>

Nil == [t |-> "nil"]

-----------------------------------------------------------------------------
(* Bounds *)

MaxSqlLen == 4      \* longest enumerated SQL template
MaxValLen == 2      \* longest enumerated formatted value
MaxVals == 2        \* most formatted values handed to createSQL
MaxPaths == 2       \* most output paths, and error output paths, of a Config
MaxArgs == 6        \* most arguments of a call of Print
MaxBound == 1       \* most bound values of a traced statement
MaxBytesLen == 2    \* longest enumerated []byte value

-----------------------------------------------------------------------------
(* Bytes and strings *)

\* The printable ASCII characters, Ascii[i] having code 31 + i (the double
\* quote, the backslash and the backquote by name).
Ascii ==
    <<" ", "!", "dquote", "#", "$", "%", "&", "'", "(", ")", "*", "+", ",", "-",
      ".", "/", "0", "1", "2", "3", "4", "5", "6", "7", "8", "9", ":", ";",
      "<", "=", ">", "?", "@", "A", "B", "C", "D", "E", "F", "G", "H", "I",
      "J", "K", "L", "M", "N", "O", "P", "Q", "R", "S", "T", "U", "V", "W",
      "X", "Y", "Z", "[", "backslash", "]", "^", "_", "backquote", "a", "b", "c", "d", "e",
      "f", "g", "h", "i", "j", "k", "l", "m", "n", "o", "p", "q", "r", "s",
      "t", "u", "v", "w", "x", "y", "z", "{", "|", "}", "~">>

Ord(c) == 31 + (CHOOSE i \in DOMAIN Ascii : Ascii[i] = c)

S(chars) == [i \in 1..Len(chars) |-> Ord(chars[i])]

Dollar == Ord("$")
QMark == Ord("?")
Quote == Ord("'")
Underscore == Ord("_")
LBrace == Ord("{")
RBrace == Ord("}")
Minus == S(<<"-">>)
Space == S(<<" ">>)
Colon == S(<<":">>)

\* All strings over alphabet of length at most n.
RECURSIVE StringsUpTo(_, _)
StringsUpTo(alphabet, n) ==
    IF n = 0 THEN {<<>>}
    ELSE LET shorter == StringsUpTo(alphabet, n - 1)
         IN  shorter \cup {Append(s, c) : s \in shorter, c \in alphabet}

\* utf8.RuneError
RuneError == 65533

\* utf8.DecodeRuneInString(s[i:]) for one- and two-byte encodings: the rune
\* and its width; an invalid or truncated encoding is RuneError, width 1.
\* (The byte alphabets of the model hold no lead byte of a three- or
\* four-byte encoding.)
DecodeRune(s, i) ==
    LET b0 == s[i]
    IN  IF b0 < 128 THEN [r |-> b0, size |-> 1]
        ELSE IF b0 \in 194..223 /\ i + 1 <= Len(s) /\ s[i + 1] \in 128..191
             THEN [r |-> (b0 - 192) * 64 + (s[i + 1] - 128), size |-> 2]
             ELSE [r |-> RuneError, size |-> 1]

\* unicode.IsPrint on Latin-1 and U+FFFD: letters, marks, numbers,
\* punctuation, symbols and the ASCII space.
IsPrint(r) ==
    \/ r \in 32..126
    \/ r \in 161..255 /\ r # 173
    \/ r = RuneError

\* unicode.IsLetter on Latin-1.
IsLetter(r) ==
    \/ r \in 65..90
    \/ r \in 97..122
    \/ r \in {170, 181, 186}
    \/ r \in 192..255 /\ r \notin {215, 247}

\* \d of the regular expressions, and unicode.IsDigit on Latin-1.
IsDigit(r) == r \in 48..57

\* strconv of fmt's %d for a non-negative integer.
RECURSIVE Itoa(_)
Itoa(n) == IF n < 10 THEN <<48 + n>> ELSE Append(Itoa(n \div 10), 48 + (n % 10))

-----------------------------------------------------------------------------
(* regexp: the parts of the library createSQL relies on *)

\* numericPlaceHolderRegexp.MatchString(s), the expression being \$\d+
MatchNumeric(s) ==
    \E i \in 1..(Len(s) - 1) : s[i] = Dollar /\ IsDigit(s[i + 1])

\* regexp's extract: the name that follows a $ of a replacement template at
\* position j, as a group number (num, -1 for a name that is not a number)
\* and the position after it.
RECURSIVE NameEnd(_, _)
NameEnd(t, i) ==
    IF i > Len(t) THEN i
    ELSE LET d == DecodeRune(t, i)
         IN  IF IsLetter(d.r) \/ IsDigit(d.r) \/ d.r = Underscore
             THEN NameEnd(t, i + d.size)
             ELSE i

RECURSIVE ParseNum(_, _, _)
ParseNum(name, i, num) ==
    IF i > Len(name) THEN num
    ELSE IF ~IsDigit(name[i]) \/ num >= 100000000 THEN -1
         ELSE ParseNum(name, i + 1, num * 10 + (name[i] - 48))

Extract(t, j) ==
    IF j > Len(t) THEN [ok |-> FALSE, num |-> -1, rest |-> j]
    ELSE LET brace == t[j] = LBrace
             start == IF brace THEN j + 1 ELSE j
             stop  == NameEnd(t, start)
             name  == SubSeq(t, start, stop - 1)
             num   == IF name[1] = 48 /\ Len(name) > 1 THEN -1
                      ELSE ParseNum(name, 1, 0)
         IN  IF stop = start THEN [ok |-> FALSE, num |-> -1, rest |-> j]
             ELSE IF brace /\ (stop > Len(t) \/ t[stop] # RBrace)
                  THEN [ok |-> FALSE, num |-> -1, rest |-> j]
                  ELSE [ok |-> TRUE, num |-> num,
                        rest |-> IF brace THEN stop + 1 ELSE stop]

\* Regexp.expand: the replacement template t from position i on, with $name
\* and ${name} replaced by the groups of the match (groups[1] the whole
\* match, groups[2] the first group); $$ is a dollar sign, a reference to
\* a group the expression does not have is empty.
RECURSIVE Expand(_, _, _)
Expand(t, i, groups) ==
    IF i > Len(t) THEN <<>>
    ELSE IF t[i] # Dollar THEN <<t[i]>> \o Expand(t, i + 1, groups)
    ELSE IF i + 1 <= Len(t) /\ t[i + 1] = Dollar
         THEN <<Dollar>> \o Expand(t, i + 2, groups)
    ELSE LET e == Extract(t, i + 1)
         IN  IF ~e.ok THEN <<Dollar>> \o Expand(t, i + 1, groups)
             ELSE (IF e.num >= 0 /\ e.num < Len(groups)
                   THEN groups[e.num + 1] ELSE <<>>)
                  \o Expand(t, e.rest, groups)

\* A match of \$N([^\d]|$) at position p of src, N being the decimal num.
PlaceholderMatch(src, p, num) ==
    LET n      == Len(num)
        after  == p + n + 1
        prefix == /\ p + n <= Len(src)
                  /\ src[p] = Dollar
                  /\ \A j \in 1..n : src[p + j] = num[j]
    IN  IF ~prefix THEN [ok |-> FALSE, stop |-> p, groups |-> <<>>]
        ELSE IF after > Len(src)
             THEN [ok |-> TRUE, stop |-> after,
                   groups |-> <<SubSeq(src, p, after - 1), <<>>>>]
        ELSE LET d == DecodeRune(src, after)
             IN  IF IsDigit(d.r)
                 THEN [ok |-> FALSE, stop |-> p, groups |-> <<>>]
                 ELSE [ok |-> TRUE, stop |-> after + d.size,
                       groups |-> <<SubSeq(src, p, after + d.size - 1),
                                    SubSeq(src, after, after + d.size - 1)>>]

\* regexp.MustCompile(`\$N([^\d]|$)`).ReplaceAllString(src, repl), from
\* position p of src on: the leftmost matches, not overlapping.
RECURSIVE ReplaceAllString(_, _, _, _)
ReplaceAllString(src, p, num, repl) ==
    IF p > Len(src) THEN <<>>
    ELSE LET m == PlaceholderMatch(src, p, num)
         IN  IF m.ok
             THEN Expand(repl, 1, m.groups) \o ReplaceAllString(src, m.stop, num, repl)
             ELSE <<src[p]>> \o ReplaceAllString(src, p + 1, num, repl)

\* sqlRegexp.Split(s, -1), the expression being \?: the segments between
\* the question marks, from position p on, cur being the open segment.
RECURSIVE Split(_, _, _)
Split(s, p, cur) ==
    IF p > Len(s) THEN <<cur>>
    ELSE IF s[p] = QMark THEN <<cur>> \o Split(s, p + 1, <<>>)
    ELSE Split(s, p + 1, Append(cur, s[p]))

-----------------------------------------------------------------------------
(* createSQL *)

\* "$1", what the numeric branch appends to a value to form the replacement.
GroupOne == S(<<"$", "1">>)

\* The loop of the numeric branch: every iteration assigns result anew
\* from sql.
RECURSIVE NumericLoop(_, _, _, _)
NumericLoop(sqlText, vals, index, res) ==
    IF index >= Len(vals) THEN res
    ELSE NumericLoop(sqlText, vals, index + 1,
            ReplaceAllString(sqlText, 1, Itoa(index + 1),
                             vals[index + 1] \o GroupOne))

\* The loop of the positional branch over the segments of the split.
RECURSIVE PositionalLoop(_, _, _, _)
PositionalLoop(segments, vals, index, res) ==
    IF index >= Len(segments) THEN res
    ELSE LET withSegment == res \o segments[index + 1]
         IN  PositionalLoop(segments, vals, index + 1,
                IF index < Len(vals) THEN withSegment \o vals[index + 1]
                ELSE withSegment)

createSQL(sqlText, vals) ==
    IF MatchNumeric(sqlText)
    THEN NumericLoop(sqlText, vals, 0, <<>>)
    ELSE PositionalLoop(Split(sqlText, 1, <<>>), vals, 0, <<>>)

-----------------------------------------------------------------------------
(* Construction of the zap logger *)

\* newEncoder: the (encoder, error) pair.
newEncoder(zapCfg) ==
    CASE zapCfg.Encoding = "console" ->
            [enc |-> [t |-> "encoder", kind |-> "console"], err |-> Nil]
      [] zapCfg.Encoding = "json" ->
            [enc |-> [t |-> "encoder", kind |-> "json"], err |-> Nil]
      [] OTHER ->
            [enc |-> Nil, err |-> [t |-> "error", msg |-> "Failed to set encoder"]]

\* newWriter: the standard streams by name, a lumberjack.Logger with four
\* fields of the rotation configuration for any other path.
newWriter(path, rotateCfg) ==
    CASE path = "stdout" -> [t |-> "stream", name |-> "stdout"]
      [] path = "stderr" -> [t |-> "stream", name |-> "stderr"]
      [] OTHER -> [t |-> "lumberjack",
                   Filename |-> rotateCfg.Filename,
                   MaxSize |-> rotateCfg.MaxSize,
                   MaxBackups |-> rotateCfg.MaxBackups,
                   MaxAge |-> rotateCfg.MaxAge]

\* open: zap.CombineWriteSyncers of one writer per path, in order.
open(paths, rotateCfg) ==
    [t |-> "combined",
     writers |-> [i \in 1..Len(paths) |-> newWriter(paths[i], rotateCfg)]]

openWriters(c) ==
    [writer |-> open(c.ZapConfig.OutputPaths, c.LogRotate),
     errWriter |-> open(c.ZapConfig.ErrorOutputPaths, c.LogRotate)]

\* buildOptions with the stack trace level of production in every mode.
buildOptionsFixedLevel(zapCfg, errWriter) ==
    <<[opt |-> "ErrorOutput", w |-> errWriter]>>
        \o (IF zapCfg.Development THEN <<[opt |-> "Development"]>> ELSE <<>>)
        \o (IF ~zapCfg.DisableCaller THEN <<[opt |-> "AddCaller"]>> ELSE <<>>)
        \o (IF ~zapCfg.DisableStacktrace
            THEN <<[opt |-> "AddStacktrace", level |-> "error"]>> ELSE <<>>)

buildOptions(zapCfg, errWriter) ==
    LET stackLevel == IF zapCfg.Development THEN "warn" ELSE "error"
    IN  <<[opt |-> "ErrorOutput", w |-> errWriter]>>
            \o (IF zapCfg.Development THEN <<[opt |-> "Development"]>> ELSE <<>>)
            \o (IF ~zapCfg.DisableCaller THEN <<[opt |-> "AddCaller"]>> ELSE <<>>)
            \o (IF ~zapCfg.DisableStacktrace
                THEN <<[opt |-> "AddStacktrace", level |-> stackLevel]>>
                ELSE <<>>)

\* build: the (log, err) pair; the error of newEncoder is discarded and err
\* is nil on every path.  A nil cfg is dereferenced: the call panics.
build(c) ==
    IF c = Nil THEN [t |-> "panic"]
    ELSE LET zapCfg == c.ZapConfig
             enc    == newEncoder(zapCfg).enc
             w      == openWriters(c)
         IN  [t |-> "return",
              log |-> [t |-> "zap.Logger",
                       core |-> [enc |-> enc, out |-> w.writer,
                                 level |-> zapCfg.Level],
                       opts |-> buildOptions(zapCfg, w.errWriter)],
              err |-> Nil]

\* NewLogger
NewLogger(zap) == [t |-> "Logger", zap |-> zap]

-----------------------------------------------------------------------------
(* Go values held in an interface{}: records tagged with their dynamic type *)

GoString(s) == [t |-> "string", s |-> s]
GoInt(i) == [t |-> "int", i |-> i]
GoBool(b) == [t |-> "bool", b |-> b]
GoBytes(s) == [t |-> "bytes", s |-> s]                \* []byte
GoPtr(v) == [t |-> "ptr", elem |-> v]                 \* elem = Nil: a nil pointer
GoSlice(e) == [t |-> "slice", elems |-> e]            \* []interface{}
GoValuer(v, err) == [t |-> "valuer", v |-> v, err |-> err]  \* what Value() returns
GoTime(y, mo, d, h, mi, sec) ==
    [t |-> "time", year |-> y, month |-> mo, day |-> d,
     hour |-> h, min |-> mi, sec |-> sec]

\* time.Time{}: January 1, year 1, 00:00:00 UTC
ZeroTime == GoTime(1, 1, 1, 0, 0, 0)

\* A non-negative integer in at least width decimal digits.
RECURSIVE Pad(_, _)
Pad(n, width) ==
    IF width <= 1 THEN Itoa(n)
    ELSE IF Len(Itoa(n)) >= width THEN Itoa(n)
    ELSE <<48>> \o Pad(n, width - 1)

\* t.Format("2006-01-02 15:04:05")
FormatTime(v) ==
    Pad(v.year, 4) \o Minus \o Pad(v.month, 2) \o Minus
        \o Pad(v.day, 2) \o Space \o Pad(v.hour, 2) \o Colon
        \o Pad(v.min, 2) \o Colon \o Pad(v.sec, 2)

RECURSIVE JoinBytes(_, _)
JoinBytes(s, i) ==
    IF i > Len(s) THEN <<>>
    ELSE (IF i > 1 THEN Space ELSE <<>>) \o Itoa(s[i]) \o JoinBytes(s, i + 1)

TrueLit == S(<<"t", "r", "u", "e">>)
FalseLit == S(<<"f", "a", "l", "s", "e">>)
LBracket == S(<<"[">>)
RBracket == S(<<"]">>)

\* fmt's %v for the integers, booleans, strings and byte slices.
FmtV(v) ==
    CASE v.t = "int" -> IF v.i < 0 THEN Minus \o Itoa(-v.i) ELSE Itoa(v.i)
      [] v.t = "bool" -> IF v.b THEN TrueLit ELSE FalseLit
      [] v.t = "string" -> v.s
      [] v.t = "bytes" -> LBracket \o JoinBytes(v.s, 1) \o RBracket

Quoted(s) == <<Quote>> \o s \o <<Quote>>

NullLit == S(<<"N", "U", "L", "L">>)
BinaryLit == S(<<"'", "<", "b", "i", "n", "a", "r", "y", ">", "'">>)
ZeroTimeLit ==
    S(<<"'", "0", "0", "0", "0", "-", "0", "0", "-", "0", "0", " ",
        "0", "0", ":", "0", "0", ":", "0", "0", "'">>)
GormPrefix == S(<<"[", "g", "o", "r", "m", "]", " ", ":", " ">>)
SqlTag == GoString(S(<<"s", "q", "l">>))

-----------------------------------------------------------------------------
(* The SQL logger for gorm *)

\* isPrintable with bytes in place of runes.
isPrintableBytewise(s) == \A i \in DOMAIN s : IsPrint(s[i])

\* The loop of isPrintable over the runes of s, from position i on.
RECURSIVE isPrintableFrom(_, _)
isPrintableFrom(s, i) ==
    IF i > Len(s) THEN TRUE
    ELSE LET d == DecodeRune(s, i)
         IN  IF ~IsPrint(d.r) THEN FALSE ELSE isPrintableFrom(s, i + d.size)

isPrintable(s) == isPrintableFrom(s, 1)

\* reflect.Indirect(reflect.ValueOf(value)): Nil stands for the invalid Value.
Indirect(value) == IF value.t = "ptr" THEN value.elem ELSE value

\* The body of the loop of getFormattedValues: the text of one value.
formatValue(raw) ==
    LET value == Indirect(raw)
    IN  IF value = Nil THEN NullLit
        ELSE IF value.t = "time"
             THEN IF value = ZeroTime THEN ZeroTimeLit
                  ELSE Quoted(FormatTime(value))
        ELSE IF value.t = "bytes"
             THEN IF isPrintable(value.s) THEN Quoted(value.s) ELSE BinaryLit
        ELSE IF value.t = "valuer"
             THEN IF ~value.err /\ value.v # Nil THEN Quoted(FmtV(value.v))
                  ELSE NullLit
        ELSE IF value.t \in {"int", "bool"} THEN FmtV(value)
        ELSE Quoted(FmtV(value))

\* getFormattedValues once values[4] is known to be a []interface{}.
getFormattedValues(vals) ==
    LET bound == vals[5].elems
    IN  [i \in 1..Len(bound) |-> formatValue(bound[i])]

\* createLog without the comparison of values[0] with "sql".
createLogAnyTag(vals) ==
    IF Len(vals) > 1
    THEN IF Len(vals) < 4 \/ vals[4].t # "string" \/ Len(vals) < 5
            \/ vals[5].t # "slice"
         THEN [panic |-> TRUE, ret |-> <<>>, formatted |-> <<>>]
         ELSE LET fv == getFormattedValues(vals)
              IN  [panic |-> FALSE,
                   ret |-> GormPrefix \o createSQL(vals[4].s, fv),
                   formatted |-> fv]
    ELSE [panic |-> FALSE, ret |-> <<>>, formatted |-> <<>>]

\* createLog: the returned string, the formatted values on the way, and
\* whether the call panics instead of returning (values[3] or values[4]
\* out of range, values[3] not a string, values[4] not a []interface{}).
createLog(vals) ==
    IF Len(vals) > 1 /\ vals[1] = SqlTag
    THEN IF Len(vals) < 4 \/ vals[4].t # "string" \/ Len(vals) < 5
            \/ vals[5].t # "slice"
         THEN [panic |-> TRUE, ret |-> <<>>, formatted |-> <<>>]
         ELSE LET fv == getFormattedValues(vals)
              IN  [panic |-> FALSE,
                   ret |-> GormPrefix \o createSQL(vals[4].s, fv),
                   formatted |-> fv]
    ELSE [panic |-> FALSE, ret |-> <<>>, formatted |-> <<>>]

-----------------------------------------------------------------------------
(* Specification of createSQL on enumerated templates and values *)

SqlAlphabet == {Ord("$"), Ord("1"), Ord("2"), Ord("?"), Ord("a")}
ValAlphabet == {Ord("$"), Ord("1"), Ord("x"), Ord("?")}

\* "SELECT * FROM t WHERE a = $1 AND b = $2"
NumericExample ==
    S(<<"S", "E", "L", "E", "C", "T", " ", "*", " ", "F", "R", "O", "M", " ",
        "t", " ", "W", "H", "E", "R", "E", " ", "a", " ", "=", " ", "$", "1",
        " ", "A", "N", "D", " ", "b", " ", "=", " ", "$", "2">>)

\* "a = ? AND b = ?"
PositionalExample ==
    S(<<"a", " ", "=", " ", "?", " ", "A", "N", "D", " ", "b", " ", "=", " ",
        "?">>)

\* "a = $1"
OneNumericExample == S(<<"a", " ", "=", " ", "$", "1">>)

\* "'$5 off'" and "'x'"
DollarValue == S(<<"'", "$", "5", " ", "o", "f", "f", "'">>)
QuotedX == S(<<"'", "x", "'">>)

Templates ==
    StringsUpTo(SqlAlphabet, MaxSqlLen)
        \cup {NumericExample, PositionalExample, OneNumericExample}

FormattedStrings ==
    StringsUpTo(ValAlphabet, MaxValLen) \cup {DollarValue, QuotedX}

RECURSIVE SeqsUpTo(_, _)
SeqsUpTo(set, n) ==
    IF n = 0 THEN {<<>>}
    ELSE LET shorter == SeqsUpTo(set, n - 1)
         IN  shorter \cup {Append(s, e) : s \in shorter, e \in set}

InitSQL ==
    /\ pc = "ready"
    /\ sql \in Templates
    /\ \E n \in 0..MaxVals : values \in [1..n -> FormattedStrings]
    /\ result = <<>>
    /\ args = <<>>
    /\ logger = Nil
    /\ formatted = <<>>
    /\ logLine = <<>>
    /\ debugCalls = <<>>
    /\ outcome = "pending"
    /\ cfg = Nil
    /\ built = Nil

CallCreateSQL ==
    /\ pc = "ready"
    /\ result' = createSQL(sql, values)
    /\ pc' = "done"
    /\ UNCHANGED <<sql, values, args, logger, formatted, logLine,
                   debugCalls, outcome, cfg, built>>

NextSQL == CallCreateSQL

SpecSQL == InitSQL /\ [][NextSQL]_vars

-----------------------------------------------------------------------------
(* Specification of build on enumerated configurations *)

Encodings == {"console", "json", "xml"}
PathNames == {"stdout", "stderr", "app.log"}
Rotations ==
    {[Filename |-> "app.log", MaxSize |-> 10, MaxBackups |-> 3, MaxAge |-> 7,
      Compress |-> TRUE],
     [Filename |-> "", MaxSize |-> 0, MaxBackups |-> 0, MaxAge |-> 0,
      Compress |-> FALSE]}

ZapConfigs ==
    [Encoding : Encodings,
     Level : {"debug", "info"},
     OutputPaths : SeqsUpTo(PathNames, MaxPaths),
     ErrorOutputPaths : SeqsUpTo(PathNames, MaxPaths),
     Development : BOOLEAN,
     DisableCaller : BOOLEAN,
     DisableStacktrace : BOOLEAN]

Configs == [t : {"Config"}, ZapConfig : ZapConfigs, LogRotate : Rotations]

InitBuild ==
    /\ pc = "ready"
    /\ cfg \in Configs \/ cfg = Nil
    /\ built = Nil
    /\ sql = <<>>
    /\ values = <<>>
    /\ result = <<>>
    /\ args = <<>>
    /\ logger = Nil
    /\ formatted = <<>>
    /\ logLine = <<>>
    /\ debugCalls = <<>>
    /\ outcome = "pending"

CallBuild ==
    /\ pc = "ready"
    /\ built' = build(cfg)
    /\ outcome' = IF build(cfg).t = "panic" THEN "panic" ELSE "returned"
    /\ pc' = "done"
    /\ UNCHANGED <<sql, values, result, args, logger, formatted, logLine,
                   debugCalls, cfg>>

NextBuild == CallBuild

SpecBuild == InitBuild /\ [][NextBuild]_vars

-----------------------------------------------------------------------------
(* Specification of Print on enumerated argument lists *)

\* BEL, "A", two continuation bytes and the lead byte 0xC2: 0xC2 0x85 is
\* U+0085 (a control), 0xC2 0xA9 is U+00A9, a lone lead or continuation
\* byte is not valid UTF-8.
ByteAlphabet == {7, 65, 133, 169, 194}

ByteStrings == StringsUpTo(ByteAlphabet, MaxBytesLen)

Scalars ==
    {GoInt(42), GoInt(-3), GoBool(TRUE), GoString(S(<<"x", "?">>)),
     ZeroTime, GoTime(2021, 3, 4, 5, 6, 7)}

RawValues ==
    {GoBytes(b) : b \in ByteStrings}
        \cup {GoPtr(GoBytes(b)) : b \in StringsUpTo(ByteAlphabet, MaxBytesLen - 1)}
        \cup Scalars
        \cup {Nil, GoPtr(Nil), GoPtr(GoInt(42))}
        \cup {GoValuer(GoString(S(<<"v">>)), FALSE), GoValuer(Nil, FALSE),
              GoValuer(GoInt(42), TRUE)}

TraceTemplates == {S(<<"a", "=", "?">>), S(<<"a", "=", "$", "1">>)}

\* The argument list gorm passes for a statement:
\* "sql", source, duration, statement, bound values, rows affected.
SqlEvent(tpl, bound) ==
    <<SqlTag, GoString(S(<<"f", ".", "g", "o">>)), GoInt(5), GoString(tpl),
      GoSlice(bound), GoInt(1)>>

\* The tag of an event that is not a statement.
LogTag == GoString(S(<<"l", "o", "g">>))

\* What the i-th argument of any other call is drawn from.
ArgChoices(i) ==
    CASE i = 1 -> {SqlTag, LogTag, GoInt(1), Nil}
      [] i \in {2, 3} -> {GoString(S(<<"f", ".", "g", "o">>)), GoInt(5)}
      [] i = 4 -> {GoString(S(<<"a", "=", "?">>)), GoInt(7)}
      [] i = 5 -> {GoSlice(<<>>), GoSlice(<<GoInt(42)>>),
                   GoString(S(<<"x">>)), Nil}
      [] OTHER -> {GoInt(1)}

RECURSIVE ArgListsOfLen(_)
ArgListsOfLen(n) ==
    IF n = 0 THEN {<<>>}
    ELSE {Append(a, e) : a \in ArgListsOfLen(n - 1), e \in ArgChoices(n)}

ArgLists == UNION {ArgListsOfLen(n) : n \in 0..MaxArgs}

\* The configuration the logger of the trace is built from.
DefaultConfig ==
    [t |-> "Config",
     ZapConfig |-> [Encoding |-> "console", Level |-> "debug",
                    OutputPaths |-> <<"stdout">>,
                    ErrorOutputPaths |-> <<"stderr">>,
                    Development |-> TRUE, DisableCaller |-> FALSE,
                    DisableStacktrace |-> FALSE],
     LogRotate |-> [Filename |-> "app.log", MaxSize |-> 10, MaxBackups |-> 3,
                    MaxAge |-> 7, Compress |-> TRUE]]

InitTrace ==
    /\ pc = "ready"
    /\ \/ /\ args \in ArgLists
          /\ logger \in {Nil, NewLogger(build(DefaultConfig).log)}
       \/ /\ \E n \in 0..MaxBound :
                \E tpl \in TraceTemplates, bound \in [1..n -> RawValues] :
                    args = SqlEvent(tpl, bound)
          /\ logger = NewLogger(build(DefaultConfig).log)
    /\ formatted = <<>>
    /\ logLine = <<>>
    /\ debugCalls = <<>>
    /\ outcome = "pending"
    /\ sql = <<>>
    /\ values = <<>>
    /\ result = <<>>
    /\ cfg = Nil
    /\ built = Nil

\* l.Print(values...): Println(values), which emits what createLog returns
\* with l.zap.Debugf unless it is empty.  A nil l is dereferenced only when
\* there is a line to emit.
Println ==
    /\ pc = "ready"
    /\ LET r == createLog(args)
       IN  /\ formatted' = r.formatted
           /\ logLine' = r.ret
           /\ IF r.panic
              THEN /\ outcome' = "panic"
                   /\ debugCalls' = debugCalls
              ELSE IF r.ret # <<>>
                   THEN IF logger = Nil
                        THEN /\ outcome' = "panic"
                             /\ debugCalls' = debugCalls
                        ELSE /\ outcome' = "returned"
                             /\ debugCalls' = Append(debugCalls, r.ret)
                   ELSE /\ outcome' = "returned"
                        /\ debugCalls' = debugCalls
    /\ pc' = "done"
    /\ UNCHANGED <<sql, values, result, args, logger, cfg, built>>

NextTrace == Println

SpecTrace == InitTrace /\ [][NextTrace]_vars

-----------------------------------------------------------------------------
(* Properties of createSQL *)

CountQ(s) == Cardinality({i \in DOMAIN s : s[i] = QMark})

\* The position after the run of digits that starts at position p of t.
RECURSIVE DigitsEnd(_, _)
DigitsEnd(t, p) ==
    IF p <= Len(t) /\ IsDigit(t[p]) THEN DigitsEnd(t, p + 1) ELSE p

\* The template t from position p on with every $n, n the whole run of
\* digits after the dollar sign and 1 <= n <= Len(vals), replaced by
\* vals[n], and every other character kept.
RECURSIVE NumericExpected(_, _, _)
NumericExpected(t, p, vals) ==
    IF p > Len(t) THEN <<>>
    ELSE LET stop   == DigitsEnd(t, p + 1)
             digits == SubSeq(t, p + 1, stop - 1)
             bound  == {n \in 1..Len(vals) : Itoa(n) = digits}
         IN  IF t[p] = Dollar /\ bound # {}
             THEN vals[CHOOSE n \in bound : TRUE] \o NumericExpected(t, stop, vals)
             ELSE <<t[p]>> \o NumericExpected(t, p + 1, vals)

\* The template t from position p on with the first Len(vals) question
\* marks replaced by the values, in order, and the later ones kept; index
\* is the number of question marks already passed.
RECURSIVE PositionalExpected(_, _, _, _)
PositionalExpected(t, p, vals, index) ==
    IF p > Len(t) THEN <<>>
    ELSE IF t[p] # QMark THEN <<t[p]>> \o PositionalExpected(t, p + 1, vals, index)
    ELSE IF index < Len(vals)
         THEN vals[index + 1] \o PositionalExpected(t, p + 1, vals, index + 1)
         ELSE <<QMark>> \o PositionalExpected(t, p + 1, vals, index)

\* ReplaceAllString with the replacement inserted as it is, followed by the
\* character the match consumed, instead of expanded as a template.
RECURSIVE ReplaceVerbatim(_, _, _, _)
ReplaceVerbatim(src, p, num, value) ==
    IF p > Len(src) THEN <<>>
    ELSE LET m == PlaceholderMatch(src, p, num)
         IN  IF m.ok
             THEN value \o m.groups[2] \o ReplaceVerbatim(src, m.stop, num, value)
             ELSE <<src[p]>> \o ReplaceVerbatim(src, p + 1, num, value)

\* The segments with one value after each, as long as there are values.
RECURSIVE Interleave(_, _)
Interleave(segments, vals) ==
    IF segments = <<>> THEN <<>>
    ELSE IF vals = <<>> THEN Head(segments) \o Interleave(Tail(segments), <<>>)
    ELSE Head(segments) \o Head(vals) \o Interleave(Tail(segments), Tail(vals))

\* No value holds a dollar sign.
DollarFree(vals) ==
    \A i \in DOMAIN vals : \A j \in DOMAIN vals[i] : vals[i][j] # Dollar

\* C1: for a template with a $n placeholder and at least one value, the
\* result of createSQL is the template with every $(i+1) that no digit
\* follows replaced by values[i], for every index i of values, the
\* character after each placeholder kept.  (Stated for values without a
\* dollar sign: what becomes of a dollar sign in a value is C10.)
C1_NumericAllReplaced ==
    (pc = "done" /\ MatchNumeric(sql) /\ Len(values) >= 1 /\ DollarFree(values))
        => result = NumericExpected(sql, 1, values)

\* C2: with an empty value sequence createSQL returns the template
\* unchanged, whatever placeholders the template has.
C2_EmptyValuesIdentity ==
    (pc = "done" /\ values = <<>>) => result = sql

\* C3: for a template without $n placeholder, the result of createSQL is
\* the template with the i-th question mark replaced by values[i] while
\* there are values, the question marks beyond the values kept as they are.
C3_PositionalKeepsTrailing ==
    (pc = "done" /\ ~MatchNumeric(sql))
        => result = PositionalExpected(sql, 1, values, 0)

\* C7: for a template with a $n placeholder, every question mark of the
\* template is in the result and no value takes the place of one: with
\* values that hold no question mark themselves, the result has as many
\* question marks as the template.
C7_NumericKeepsQuestionMarks ==
    (/\ pc = "done"
     /\ MatchNumeric(sql)
     /\ \A i \in DOMAIN values : CountQ(values[i]) = 0)
        => CountQ(result) = CountQ(sql)

\* C10: an inserted value is in the result character for character: with
\* one value and a $n template, the result is the template with the value
\* itself put at each match of $1; without $n, the result is the segments
\* between the question marks of the template with the values themselves
\* in between.
C10_ValuesVerbatim ==
    /\ (pc = "done" /\ MatchNumeric(sql) /\ Len(values) = 1)
           => result = ReplaceVerbatim(sql, 1, Itoa(1), values[1])
    /\ (pc = "done" /\ ~MatchNumeric(sql))
           => result = Interleave(Split(sql, 1, <<>>), values)

-----------------------------------------------------------------------------
(* Properties of build *)

HasOption(opts, name) == \E i \in DOMAIN opts : opts[i].opt = name

\* C4: for a configuration whose encoding is neither console nor json,
\* build returns an error and no logger.
C4_UnknownEncodingFails ==
    (pc = "done" /\ cfg # Nil /\ cfg.ZapConfig.Encoding \notin {"console", "json"})
        => (built.err # Nil /\ built.log = Nil)

\* C9: the options build hands to zap.New always hold the error output set
\* to the sink of the error output paths, hold the development option iff
\* Development is set, the caller annotation iff DisableCaller is not set,
\* and a stack trace option iff DisableStacktrace is not set, whose level
\* is warn when Development is set and error otherwise.
C9_OptionAssembly ==
    (pc = "done" /\ cfg # Nil) =>
        LET opts   == built.log.opts
            zapCfg == cfg.ZapConfig
            sink   == [t |-> "combined",
                       writers |-> [i \in DOMAIN zapCfg.ErrorOutputPaths |->
                           newWriter(zapCfg.ErrorOutputPaths[i], cfg.LogRotate)]]
        IN  /\ \E i \in DOMAIN opts : opts[i] = [opt |-> "ErrorOutput", w |-> sink]
            /\ HasOption(opts, "Development") <=> zapCfg.Development
            /\ HasOption(opts, "AddCaller") <=> ~zapCfg.DisableCaller
            /\ HasOption(opts, "AddStacktrace") <=> ~zapCfg.DisableStacktrace
            /\ \A i \in DOMAIN opts :
                   opts[i].opt = "AddStacktrace" =>
                       opts[i].level = IF zapCfg.Development THEN "warn" ELSE "error"

\* A development configuration with caller and stack trace enabled has
\* been built.
C9_Witness ==
    /\ pc = "done"
    /\ cfg # Nil
    /\ cfg.ZapConfig.Development
    /\ ~cfg.ZapConfig.DisableCaller
    /\ ~cfg.ZapConfig.DisableStacktrace
    /\ Len(cfg.ZapConfig.ErrorOutputPaths) = 2
    /\ Len(built.log.opts) = 4
    /\ built.log.opts[4] = [opt |-> "AddStacktrace", level |-> "warn"]

-----------------------------------------------------------------------------
(* Properties of the SQL logger *)

\* The runes of s from position i on.
RECURSIVE Runes(_, _)
Runes(s, i) ==
    IF i > Len(s) THEN <<>>
    ELSE <<DecodeRune(s, i).r>> \o Runes(s, i + DecodeRune(s, i).size)

AllRunesPrintable(s) == \A k \in DOMAIN Runes(s, 1) : IsPrint(Runes(s, 1)[k])

\* The call reached getFormattedValues.
Formats ==
    /\ pc = "done"
    /\ Len(args) >= 5
    /\ args[1] = SqlTag
    /\ args[4].t = "string"
    /\ args[5].t = "slice"

\* C5: a call of Print with more than one argument, the first being "sql",
\* returns normally whatever the shape of the other arguments.
C5_MalformedTraceReturns ==
    (pc = "done" /\ logger # Nil /\ Len(args) > 1 /\ args[1] = SqlTag)
        => outcome = "returned"

\* C6: for an argument list of at most one element, or whose first element
\* is not "sql", createLog returns the empty string, Debugf is not called
\* and the call returns normally.
C6_FilterRejects ==
    (pc = "done" /\ (Len(args) <= 1 \/ args[1] # SqlTag))
        => (logLine = <<>> /\ debugCalls = <<>> /\ outcome = "returned")

\* A complete event of another tag has been rejected.
C6_Witness ==
    /\ pc = "done"
    /\ Len(args) >= 5
    /\ args[1] = LogTag
    /\ args[4].t = "string"
    /\ args[5] = GoSlice(<<GoInt(42)>>)
    /\ logger # Nil
    /\ debugCalls = <<>>

\* C8: a bound value that is a []byte, or a pointer to one, is formatted
\* as the quoted bytes when every rune they decode to is printable, and as
\* '<binary>' when one is not.
C8_BinaryNeverLeaks ==
    Formats =>
        \A i \in DOMAIN args[5].elems :
            LET value == Indirect(args[5].elems[i])
            IN  value.t = "bytes" =>
                    formatted[i] = IF AllRunesPrintable(value.s)
                                   THEN Quoted(value.s) ELSE BinaryLit

\* Bytes that decode to a rune that is not printable, U+0085, have been
\* formatted as '<binary>'.
C8_Witness ==
    /\ Formats
    /\ args[5].elems = <<GoBytes(<<194, 133>>)>>
    /\ formatted = <<BinaryLit>>

====
